---- MODULE Spec2Model ----
(***************************************************************************)
(* The ledger engine of src/banking_system_cpp_my_sql.cpp: Bank::deposit,  *)
(* Bank::withdraw and Bank::transfer, each run by an independent caller    *)
(* that owns one Bank object, hence one MySQL connection.  Amounts are     *)
(* integers (hundredths, DECIMAL(15,2)).                                   *)
(*                                                                         *)
(* Storage is InnoDB as the code uses it (default REPEATABLE READ):        *)
(*   - a SELECT outside a transaction reads the committed row; inside one  *)
(*     it reads the transaction's snapshot, and the transaction's own      *)
(*     writes;                                                             *)
(*   - UPDATE takes the row's exclusive lock, held to commit or rollback,  *)
(*     and works on the latest committed row;                              *)
(*   - INSERT INTO transactions fails when account_id has no row; it never *)
(*     waits, its parent row being locked by the UPDATE before it;         *)
(*   - commit publishes the transaction's writes in one step;              *)
(*   - setAutoCommit(true) commits whatever transaction is open.           *)
(* A storage call may throw sql::SQLException (a fault); a call that       *)
(* throws has no effect and the connection stays usable.                   *)
(*                                                                         *)
(* One action is one step of a caller that another caller can tell apart:  *)
(* statements that touch only the caller's connection (setAutoCommit, the  *)
(* INSERTs of an open transaction, the catch block after a throw) run in   *)
(* the action of the statement they follow or precede.                     *)
(***************************************************************************)
EXTENDS Integers, Sequences, FiniteSets, TLC

\* bounds of the model
MaxOps == 2
MaxFaults == 2
MaxTicks == 1

Callers == {"c1", "c2"}
\* rows of the accounts table at the start; account id 3 has no row then
Accounts == {1, 2}
AccountIds == {1, 2, 3}
\* rows of the customers table at the start, by customer_id: the name
Customers == <<"Ann">>
\* the names and the customer ids a caller passes
Names == {"", "Bob"}
CustomerIds == {1, 2}
\* the limits a caller passes to recentTransactions
Limits == {1, 2}
\* the amounts a caller passes, and the balances the accounts start with
Amounts == {0 - 1, 0, 1}
InitBalances == {0, 1}

VARIABLES
    customers,     \* committed customers.name, by customer_id
    accounts,      \* committed accounts.customer_id, by account_id
    balance,       \* committed accounts.balance, by account_id
    transactions,  \* committed rows of the transactions table, in commit order
    next_id,       \* the AUTO_INCREMENT counters of customers and accounts
    now,           \* CURRENT_TIMESTAMP, in seconds
    autoCommit,    \* per connection: the auto-commit mode
    txn,           \* per connection: the open transaction
    pc,            \* per caller: where it is inside its call
    op,            \* per caller: its current call
    acct,          \* per caller: the Account a / a_from read by getAccount
    ret,           \* per caller: the return statement its last call left by
    out,           \* per caller: what createCustomer, createAccount or
                   \* recentTransactions returned to it
    io,            \* per caller: its current (or last) call issued a storage call
    calls,         \* calls made so far
    settled,       \* by account_id: the starting balance and what the calls that
                   \* returned true were to add and take
    faults         \* storage faults still to come

vars == <<customers, accounts, balance, transactions, next_id, now, autoCommit, txn, pc,
          op, acct, ret, out, io, calls, settled, faults>>

\* a row of the transactions table, inserted now
TransactionRecord(account_id, type, amount, details) ==
    [account_id |-> account_id, type |-> type, amount |-> amount, details |-> details,
     created_at |-> now]

\* Account a; a.id = -1
NoAccount == [id |-> 0 - 1, balance |-> 0]

\* a connection with no transaction open
NoTxn ==
    [locks |-> {}, delta |-> [id \in AccountIds |-> 0], recs |-> <<>>, view |-> <<>>,
     customers |-> <<>>, accounts |-> <<>>]

NoOp == [name |-> "none", from |-> 0, to |-> 0, amount |-> 0]

\* the return statements, by function and kind, named by their source line
Site(name, kind) ==
    CASE name = "deposit" /\ kind = "invalid" -> "deposit:314"
      [] name = "deposit" /\ kind = "true" -> "deposit:332"
      [] name = "deposit" /\ kind = "caught" -> "deposit:336"
      [] name = "withdraw" /\ kind = "invalid" -> "withdraw:341"
      [] name = "withdraw" /\ kind = "notfound" -> "withdraw:345"
      [] name = "withdraw" /\ kind = "insufficient" -> "withdraw:346"
      [] name = "withdraw" /\ kind = "true" -> "withdraw:364"
      [] name = "withdraw" /\ kind = "caught" -> "withdraw:368"
      [] name = "transfer" /\ kind = "invalid" -> "transfer:373"
      [] name = "transfer" /\ kind = "notfound" -> "transfer:377"
      [] name = "transfer" /\ kind = "insufficient" -> "transfer:378"
      [] name = "transfer" /\ kind = "true" -> "transfer:413"
      [] name = "transfer" /\ kind = "caught" -> "transfer:417"
      [] name = "recentTransactions" -> "recentTransactions:442"
      [] name = "createCustomer" /\ kind = "id" -> "createCustomer:211"
      [] name = "createCustomer" /\ kind = "caught" -> "createCustomer:214"
      [] name = "createAccount" /\ kind = "id" -> "createAccount:266"
      [] name = "createAccount" /\ kind = "caught" -> "createAccount:269"

\* what the caller's last call returned: return true, return false
Succeeded(c) == ret[c] \in {"deposit:332", "withdraw:364", "transfer:413"}
Failed(c) == ret[c] # "none" /\ ~Succeeded(c)

\* the choices of a storage call when k faults are left: it throws or not
MayFault(k) == IF k > 0 THEN {TRUE, FALSE} ELSE {FALSE}

Cost(f) == IF f THEN 1 ELSE 0

\* if (amount <= 0) return false;
\* a variant that lets a zero amount through (tests C8)
InvalidAmountNegativeOnly(amount) == amount < 0

InvalidAmount(amount) == amount <= 0

\* if (a.id < 0) return false;
NotFound(a) == a.id < 0

\* a variant that also refuses the whole balance (tests C17)
InsufficientAtBoundary(a, amount) == a.balance <= amount

\* if (a.balance < amount) return false;
Insufficient(a, amount) == a.balance < amount

\* a variant in which a transaction also waits for a row lock it holds itself
\* (tests C20)
LockHeldByNobody(c, id) == \A d \in Callers : id \notin txn[d].locks

\* the row lock of account id is free for caller c
LockFree(c, id) == \A d \in Callers \ {c} : id \notin txn[d].locks

\* the committed rows of accounts (their balances) and the number of committed
\* rows of transactions that a SELECT of caller c reads: the latest, or inside
\* a transaction those of its snapshot
Snapshot(c) ==
    IF autoCommit[c] \/ txn[c].view = <<>> THEN <<balance, Len(transactions)>>
    ELSE txn[c].view

\* the account ids a SELECT of caller c finds a row for: committed ones and
\* those its own transaction has inserted or updated
Selectable(c) == DOMAIN Snapshot(c)[1] \cup txn[c].locks

\* SELECT balance FROM accounts WHERE account_id = id, for a row that exists
SelectBalance(c, id) ==
    IF id \in DOMAIN txn[c].accounts THEN txn[c].delta[id]
    ELSE IF id \in txn[c].locks THEN balance[id] + txn[c].delta[id]
    ELSE Snapshot(c)[1][id]

\* the connection's transaction after a SELECT: the first one inside a
\* transaction fixes its snapshot
AfterSelect(c) ==
    IF ~autoCommit[c] /\ txn[c].view = <<>>
    THEN [txn[c] EXCEPT !.view = <<balance, Len(transactions)>>]
    ELSE txn[c]

\* Bank::getAccount: the Account, or id -1 when there is no row or the query throws
getAccount(c, id, f) ==
    IF f \/ id \notin Selectable(c) THEN NoAccount
    ELSE [id |-> id, balance |-> SelectBalance(c, id)]

\* UPDATE accounts SET balance = balance + d WHERE account_id = id
ExecUpdate(t, id, d) ==
    IF id \in DOMAIN balance \cup DOMAIN t.accounts
    THEN [t EXCEPT !.locks = @ \cup {id}, !.delta[id] = @ + d]
    ELSE t

\* INSERT INTO transactions(...) of the rows recs
ExecInsert(t, recs) == [t EXCEPT !.recs = @ \o recs]

\* the committed tables after transaction t commits
CommitCustomers(cust, t) == cust @@ t.customers
CommitAccounts(acc, t) == acc @@ t.accounts
CommitBalance(bal, t) ==
    [id \in DOMAIN bal \cup DOMAIN t.accounts |->
        (IF id \in DOMAIN bal THEN bal[id] ELSE 0)
        + (IF id \in DOMAIN t.delta THEN t.delta[id] ELSE 0)]
CommitTransactions(trans, t) == trans \o t.recs
\* and the connection's transaction after it
CommitTxn(t) == NoTxn

\* a variant of the catch block without rollback(): setAutoCommit(true) then
\* commits what the transaction has written (tests C4)
CatchWithoutRollback(t, ac, budget) ==
    {[txn |-> CommitTxn(t), ac |-> TRUE, used |-> 0, published |-> t]}

\* catch (sql::SQLException&) { try { rollback(); setAutoCommit(true); } catch(...){} }
\* entered with the connection in state (t, ac) and budget faults left: the
\* connection after it, the faults it met, the transaction it made public
CatchOutcomes(t, ac, budget) ==
    LET rolledBack == NoTxn
    IN  {[txn |-> CommitTxn(rolledBack), ac |-> TRUE, used |-> 0, published |-> rolledBack]}
        \cup (IF budget > 0
              THEN {\* setAutoCommit(true) throws
                    [txn |-> rolledBack, ac |-> ac, used |-> 1, published |-> NoTxn],
                    \* rollback() throws
                    [txn |-> t, ac |-> ac, used |-> 1, published |-> NoTxn]}
              ELSE {})

\* what the call o is to add to the balance of each account
Effect(o) ==
    [a \in Accounts |->
        (IF o.name \in {"withdraw", "transfer"} /\ o.from = a THEN 0 - o.amount ELSE 0)
        + (IF o.name = "deposit" /\ o.from = a THEN o.amount ELSE 0)
        + (IF o.name = "transfer" /\ o.to = a THEN o.amount ELSE 0)]

\* one step of caller c, to label l or, leaving by the return statement r, to
\* "idle", which makes the writes of transaction pub public (NoTxn: none):
\* every variable but io, next_id and out
Run(c, l, r, a, t, ac, used, pub) ==
    /\ pc' = [pc EXCEPT ![c] = l]
    /\ ret' = [ret EXCEPT ![c] = r]
    /\ op' = [op EXCEPT ![c] = IF l = "idle" THEN NoOp ELSE @]
    /\ acct' = [acct EXCEPT ![c] = a]
    /\ txn' = [txn EXCEPT ![c] = t]
    /\ autoCommit' = [autoCommit EXCEPT ![c] = ac]
    /\ faults' = faults - used
    /\ customers' = CommitCustomers(customers, pub)
    /\ accounts' = CommitAccounts(accounts, pub)
    /\ balance' = CommitBalance(balance, pub)
    /\ transactions' = CommitTransactions(transactions, pub)
    /\ settled' = IF r \in {"deposit:332", "withdraw:364", "transfer:413"}
                  THEN [id \in Accounts |-> settled[id] + Effect(op[c])[id]]
                  ELSE settled
    /\ UNCHANGED <<calls, now>>

\* such a step of deposit, withdraw or transfer
Step(c, l, r, a, t, ac, used, pub) ==
    /\ Run(c, l, r, a, t, ac, used, pub)
    /\ UNCHANGED <<next_id, out>>

\* a storage call of caller c
Storage(c) == io' = [io EXCEPT ![c] = TRUE]

\* the return statement of the given kind
Return(c, kind, t, ac, used, pub) ==
    Step(c, "idle", Site(op[c].name, kind), NoAccount, t, ac, used, pub)

\* the return statement of a function that hands back more than a bool
ReturnValue(c, kind, t, ac, used, pub) ==
    Run(c, "idle", Site(op[c].name, kind), NoAccount, t, ac, used, pub)

\* a storage call threw, the connection being in state (t, ac), after used
\* faults: the catch block, return false
Catch(c, t, ac, used) ==
    \E o \in CatchOutcomes(t, ac, faults - used) :
        Return(c, "caught", o.txn, o.ac, used + o.used, o.published)

\* impl->conn->setAutoCommit(false) after used faults, the transaction being t
Begin(c, a, t, used, next) ==
    \E f \in MayFault(faults - used) :
        IF f THEN Catch(c, t, autoCommit[c], used + 1)
        ELSE Step(c, next, "none", a, t, FALSE, used, NoTxn)

\* an UPDATE of the row of account id: it throws, or waits for the row lock and runs
Update(c, id, d, next) ==
    /\ Storage(c)
    /\ \E f \in MayFault(faults) :
        IF f THEN Catch(c, txn[c], autoCommit[c], 1)
        ELSE /\ LockFree(c, id)
             /\ Step(c, next, "none", acct[c], ExecUpdate(txn[c], id, d), autoCommit[c], 0, NoTxn)

\* a variant without the foreign key of the transactions table: every INSERT
\* is accepted (tests C11)
FinishWithoutForeignKey(c, recs, next) ==
    LET all == ExecInsert(txn[c], recs)
    IN  /\ Storage(c)
        /\ Step(c, next, "none", acct[c], NoTxn, autoCommit[c], 0, all)

\* the INSERTs of recs and impl->conn->commit().  p is the statement that
\* throws: INSERT p of 1 .. n, the commit (n + 1), or none (0).  An INSERT whose
\* account_id has no row throws by the foreign key of the transactions table.
Finish(c, recs, next) ==
    LET n == Len(recs)
        orphans == {k \in 1 .. n :
                       recs[k].account_id \notin DOMAIN balance \cup DOMAIN txn[c].accounts}
        all == ExecInsert(txn[c], recs)
    IN  /\ Storage(c)
        /\ \E p \in 0 .. n + 1 :
            /\ \A k \in orphans : p # 0 /\ p <= k
            /\ p \notin orphans /\ p # 0 => faults > 0
            /\ IF p = 0
               THEN Step(c, next, "none", acct[c], NoTxn, autoCommit[c], 0, all)
               ELSE IF p <= n
               THEN Catch(c, ExecInsert(txn[c], SubSeq(recs, 1, p - 1)), autoCommit[c],
                          IF p \in orphans THEN 0 ELSE 1)
               ELSE Catch(c, all, autoCommit[c], 1)

\* impl->conn->setAutoCommit(true); return true;
Committed(c) ==
    /\ Storage(c)
    /\ \E f \in MayFault(faults) :
        IF f THEN Catch(c, txn[c], autoCommit[c], 1)
        ELSE Return(c, "true", CommitTxn(txn[c]), TRUE, 0, txn[c])

-----------------------------------------------------------------------------
\* main: a caller calls deposit, withdraw or transfer
Invoke(c, name, from, to, amount) ==
    /\ pc[c] = "idle"
    /\ calls < MaxOps
    /\ name # "transfer" => to = from
    /\ calls' = calls + 1
    /\ pc' = [pc EXCEPT ![c] = name]
    /\ op' = [op EXCEPT ![c] = [name |-> name, from |-> from, to |-> to, amount |-> amount]]
    /\ ret' = [ret EXCEPT ![c] = "none"]
    /\ io' = [io EXCEPT ![c] = FALSE]
    /\ UNCHANGED <<customers, accounts, balance, transactions, next_id, now, autoCommit, txn,
                   acct, out, settled, faults>>

\* the rejection of an amount
Reject(c) ==
    /\ Return(c, "invalid", txn[c], autoCommit[c], 0, NoTxn)
    /\ UNCHANGED io

-----------------------------------------------------------------------------
\* Bank::deposit

deposit(c) ==
    /\ pc[c] = "deposit"
    /\ IF InvalidAmount(op[c].amount) THEN Reject(c)
       ELSE /\ Storage(c)
            /\ Begin(c, NoAccount, txn[c], 0, "d_update")

DepositUpdate(c) ==
    /\ pc[c] = "d_update"
    /\ Update(c, op[c].from, op[c].amount, "d_finish")

DepositFinish(c) ==
    /\ pc[c] = "d_finish"
    /\ Finish(c, <<TransactionRecord(op[c].from, "DEPOSIT", op[c].amount, <<"Deposit via app">>)>>,
              "d_committed")

DepositCommitted(c) ==
    /\ pc[c] = "d_committed"
    /\ Committed(c)

-----------------------------------------------------------------------------
\* Bank::withdraw

withdraw(c) ==
    /\ pc[c] = "withdraw"
    /\ IF InvalidAmount(op[c].amount) THEN Reject(c)
       ELSE /\ Storage(c)
            /\ \E f \in MayFault(faults) :
                LET a == getAccount(c, op[c].from, f)
                    t == IF f THEN txn[c] ELSE AfterSelect(c)
                IN  IF NotFound(a)
                    THEN Return(c, "notfound", t, autoCommit[c], Cost(f), NoTxn)
                    ELSE IF Insufficient(a, op[c].amount)
                    THEN Return(c, "insufficient", t, autoCommit[c], Cost(f), NoTxn)
                    ELSE Begin(c, a, t, Cost(f), "w_update")

WithdrawUpdate(c) ==
    /\ pc[c] = "w_update"
    /\ Update(c, op[c].from, 0 - op[c].amount, "w_finish")

WithdrawFinish(c) ==
    /\ pc[c] = "w_finish"
    /\ Finish(c, <<TransactionRecord(op[c].from, "WITHDRAW", op[c].amount, <<"Withdrawal via app">>)>>,
              "w_committed")

WithdrawCommitted(c) ==
    /\ pc[c] = "w_committed"
    /\ Committed(c)

-----------------------------------------------------------------------------
\* Bank::transfer

transfer(c) ==
    /\ pc[c] = "transfer"
    /\ IF InvalidAmount(op[c].amount) THEN Reject(c)
       ELSE /\ Storage(c)
            /\ \E f \in MayFault(faults) : \E g \in MayFault(faults - Cost(f)) :
                LET a_from == getAccount(c, op[c].from, f)
                    a_to == getAccount(c, op[c].to, g)
                    t == IF f /\ g THEN txn[c] ELSE AfterSelect(c)
                IN  IF NotFound(a_from) \/ NotFound(a_to)
                    THEN Return(c, "notfound", t, autoCommit[c], Cost(f) + Cost(g), NoTxn)
                    ELSE IF Insufficient(a_from, op[c].amount)
                    THEN Return(c, "insufficient", t, autoCommit[c], Cost(f) + Cost(g), NoTxn)
                    ELSE Begin(c, a_from, t, Cost(f) + Cost(g), "t_debit")

TransferDebit(c) ==
    /\ pc[c] = "t_debit"
    /\ Update(c, op[c].from, 0 - op[c].amount, "t_credit")

\* a variant of the credit that adds nothing to the destination (tests C6)
TransferCreditNothing(c) ==
    /\ pc[c] = "t_credit"
    /\ Update(c, op[c].to, 0, "t_finish")

TransferCredit(c) ==
    /\ pc[c] = "t_credit"
    /\ Update(c, op[c].to, op[c].amount, "t_finish")

TransferFinish(c) ==
    /\ pc[c] = "t_finish"
    /\ Finish(c, <<TransactionRecord(op[c].from, "TRANSFER", op[c].amount,
                                     <<"Transfer to account", op[c].to>>),
                   TransactionRecord(op[c].to, "DEPOSIT", op[c].amount,
                                     <<"Transfer from account", op[c].from>>)>>,
              "t_committed")

TransferCommitted(c) ==
    /\ pc[c] = "t_committed"
    /\ Committed(c)

-----------------------------------------------------------------------------
\* InnoDB on a statement that waits for a row lock

\* the ids of the rows of accounts, committed or not
AccountRows == DOMAIN balance \cup UNION {DOMAIN txn[d].accounts : d \in Callers}

\* a variant in which the storage never ends a wait for a row lock: no lock
\* wait timeout, no deadlock detection (tests C18)
WantedForever(c) == {}

\* the accounts whose row lock caller c's next statement needs
Wanted(c) ==
    IF pc[c] \in {"d_update", "w_update", "t_debit"} THEN {op[c].from} \cap AccountRows
    ELSE IF pc[c] = "t_credit" THEN {op[c].to} \cap AccountRows
    ELSE {}

Blocked(c) == \E id \in Wanted(c) : ~LockFree(c, id)

\* lock wait timeout: the waiting statement throws, the transaction stays open
LockWaitTimeout(c) ==
    /\ Blocked(c)
    /\ Storage(c)
    /\ Catch(c, txn[c], autoCommit[c], 0)

\* deadlock: c waits for a lock of d and d for a lock of c; InnoDB rolls back
\* the victim's transaction and its statement throws
Deadlock(c) ==
    /\ \E d \in Callers \ {c} :
        /\ \E id \in Wanted(c) : id \in txn[d].locks
        /\ \E id \in Wanted(d) : id \in txn[c].locks
    /\ Storage(c)
    /\ Catch(c, NoTxn, autoCommit[c], 0)

\* main: a caller calls another function of Bank, o naming it and its arguments
Call(c, o) ==
    /\ pc[c] = "idle"
    /\ calls < MaxOps
    /\ calls' = calls + 1
    /\ pc' = [pc EXCEPT ![c] = o.name]
    /\ op' = [op EXCEPT ![c] = o]
    /\ ret' = [ret EXCEPT ![c] = "none"]
    /\ out' = [out EXCEPT ![c] = <<>>]
    /\ io' = [io EXCEPT ![c] = FALSE]
    /\ UNCHANGED <<customers, accounts, balance, transactions, next_id, now, autoCommit, txn,
                   acct, settled, faults>>

\* the arguments of createCustomer(name, email, phone) and of
\* createAccount(customer_id, type)
CustomerArgs(name) ==
    [name |-> "createCustomer", from |-> 0, to |-> 0, amount |-> 0, customer |-> name]
AccountArgs(customer_id) ==
    [name |-> "createAccount", from |-> 0, to |-> 0, amount |-> 0, customer_id |-> customer_id]

\* a function that returns an id returns v by the return statement of the
\* given kind; its INSERT, if any, has left p for the connection to commit and
\* has moved the counters to ids; used faults
Created(c, kind, v, p, ids, used) ==
    /\ Storage(c)
    /\ next_id' = ids
    /\ out' = [out EXCEPT ![c] = v]
    /\ IF autoCommit[c]
       THEN ReturnValue(c, kind, txn[c], TRUE, used, p)
       ELSE ReturnValue(c, kind,
                        [txn[c] EXCEPT !.customers = @ @@ p.customers,
                                       !.accounts = @ @@ p.accounts,
                                       !.locks = @ \cup DOMAIN p.accounts],
                        FALSE, used, NoTxn)

\* Bank::createCustomer.  The INSERT throws, or SELECT LAST_INSERT_ID() does,
\* or none; customers.name is NOT NULL, which the empty string is
createCustomer(c) ==
    /\ pc[c] = "createCustomer"
    /\ LET id == next_id.customers
           ids == [next_id EXCEPT !.customers = id + 1]
           row == [NoTxn EXCEPT !.customers = id :> op[c].customer]
       IN  \/ Created(c, "id", id, row, ids, 0)
           \/ faults > 0 /\ Created(c, "caught", 0 - 1, NoTxn, next_id, 1)
           \/ faults > 0 /\ Created(c, "caught", 0 - 1, row, ids, 1)

\* a variant without the foreign key of the accounts table (tests C16)
AnyCustomer(c, customer_id) == TRUE

\* the INSERT of caller c finds the customers row its foreign key refers to
CustomerExists(c, customer_id) ==
    customer_id \in DOMAIN customers \cup DOMAIN txn[c].customers

\* Bank::createAccount.  The INSERT waits while another transaction holds the
\* customers row uncommitted, until that one ends or the wait times out; it
\* throws by the foreign key when there is no such row, its id being spent
createAccount(c) ==
    /\ pc[c] = "createAccount"
    /\ LET id == next_id.accounts
           ids == [next_id EXCEPT !.accounts = id + 1]
           row == [NoTxn EXCEPT !.accounts = id :> op[c].customer_id]
       IN  IF \E d \in Callers \ {c} : op[c].customer_id \in DOMAIN txn[d].customers
           THEN Created(c, "caught", 0 - 1, NoTxn, next_id, 0)
           ELSE IF ~CustomerExists(c, op[c].customer_id)
           THEN Created(c, "caught", 0 - 1, NoTxn, ids, 0)
           ELSE \/ Created(c, "id", id, row, ids, 0)
                \/ faults > 0 /\ Created(c, "caught", 0 - 1, NoTxn, next_id, 1)
                \/ faults > 0 /\ Created(c, "caught", 0 - 1, row, ids, 1)

\* the arguments of recentTransactions(account_id, limit)
RecentArgs(account_id, limit) ==
    [name |-> "recentTransactions", from |-> 0, to |-> 0, amount |-> 0,
     account_id |-> account_id, limit |-> limit]

\* the rows of transactions a SELECT of caller c reads: the committed ones of
\* its snapshot, then those its own transaction has inserted
VisibleRows(c) == SubSeq(transactions, 1, Snapshot(c)[2]) \o txn[c].recs

\* SELECT ... FROM transactions WHERE account_id = ? ORDER BY created_at DESC
\* LIMIT ?, over the rows rows: the sequences of row numbers the server may
\* answer with.  Rows with the same created_at come in any order.
SelectRecent(rows, account_id, limit) ==
    LET mine == {k \in DOMAIN rows : rows[k].account_id = account_id}
        m == IF limit < Cardinality(mine) THEN limit ELSE Cardinality(mine)
    IN  {s \in [1 .. m -> mine] :
            /\ \A i \in 1 .. m : \A j \in 1 .. m : i < j =>
                  /\ s[i] # s[j]
                  /\ rows[s[i]].created_at >= rows[s[j]].created_at
            /\ \A k \in mine : (\A i \in 1 .. m : s[i] # k) =>
                  \A i \in 1 .. m : rows[k].created_at <= rows[s[i]].created_at}

\* Bank::recentTransactions: the rows read, by their number, or nothing when
\* the query throws
recentTransactions(c) ==
    /\ pc[c] = "recentTransactions"
    /\ Storage(c)
    /\ UNCHANGED next_id
    /\ \E f \in MayFault(faults) :
        IF f
        THEN /\ out' = [out EXCEPT ![c] = <<>>]
             /\ ReturnValue(c, "out", txn[c], autoCommit[c], 1, NoTxn)
        ELSE /\ \E s \in SelectRecent(VisibleRows(c), op[c].account_id, op[c].limit) :
                  out' = [out EXCEPT ![c] = s]
             /\ ReturnValue(c, "out", AfterSelect(c), autoCommit[c], 0, NoTxn)

\* a second passes
Tick ==
    /\ now < MaxTicks
    /\ now' = now + 1
    /\ UNCHANGED <<customers, accounts, balance, transactions, next_id, autoCommit, txn, pc,
                   op, acct, ret, out, io, calls, settled, faults>>

-----------------------------------------------------------------------------
\* the rows a past deposit left
Deposited(id, b) ==
    IF b > 0 THEN <<TransactionRecord(id, "DEPOSIT", b, <<"Deposit via app">>)>> ELSE <<>>

Init ==
    /\ customers = Customers
    /\ accounts = [id \in Accounts |-> 1]
    /\ next_id = [customers |-> Len(Customers) + 1, accounts |-> 3]
    /\ now = 0
    /\ out = [c \in Callers |-> <<>>]
    /\ balance \in [Accounts -> InitBalances]
    /\ transactions = Deposited(1, balance[1]) \o Deposited(2, balance[2])
    /\ autoCommit = [c \in Callers |-> TRUE]
    /\ txn = [c \in Callers |-> NoTxn]
    /\ pc = [c \in Callers |-> "idle"]
    /\ op = [c \in Callers |-> NoOp]
    /\ acct = [c \in Callers |-> NoAccount]
    /\ ret = [c \in Callers |-> "none"]
    /\ io = [c \in Callers |-> FALSE]
    /\ calls = 0
    /\ settled = balance
    /\ faults = MaxFaults

Next ==
    \/ \E c \in Callers, name \in {"deposit", "withdraw", "transfer"},
          from \in AccountIds, to \in AccountIds, amount \in Amounts :
           Invoke(c, name, from, to, amount)
    \/ \E c \in Callers : deposit(c)
    \/ \E c \in Callers : DepositUpdate(c)
    \/ \E c \in Callers : DepositFinish(c)
    \/ \E c \in Callers : DepositCommitted(c)
    \/ \E c \in Callers : withdraw(c)
    \/ \E c \in Callers : WithdrawUpdate(c)
    \/ \E c \in Callers : WithdrawFinish(c)
    \/ \E c \in Callers : WithdrawCommitted(c)
    \/ \E c \in Callers : transfer(c)
    \/ \E c \in Callers : TransferDebit(c)
    \/ \E c \in Callers : TransferCredit(c)
    \/ \E c \in Callers : TransferFinish(c)
    \/ \E c \in Callers : TransferCommitted(c)
    \/ \E c \in Callers : LockWaitTimeout(c)
    \/ \E c \in Callers : Deadlock(c)

\* a step of caller c inside its call
Proceed(c) ==
    \/ deposit(c) \/ DepositUpdate(c) \/ DepositFinish(c) \/ DepositCommitted(c)
    \/ withdraw(c) \/ WithdrawUpdate(c) \/ WithdrawFinish(c) \/ WithdrawCommitted(c)
    \/ transfer(c) \/ TransferDebit(c) \/ TransferCredit(c) \/ TransferFinish(c)
    \/ TransferCommitted(c)
    \/ LockWaitTimeout(c) \/ Deadlock(c)

Spec == Init /\ [][Next]_vars

\* main calls bank.createCustomer, bank.createAccount, bank.recentTransactions
\* with the values it has read
CallCreateCustomer(c, name) ==
    /\ pc[c] = "idle"
    /\ Call(c, CustomerArgs(name))

CallCreateAccount(c, customer_id) ==
    /\ pc[c] = "idle"
    /\ Call(c, AccountArgs(customer_id))

CallRecentTransactions(c, account_id, limit) ==
    /\ pc[c] = "idle"
    /\ Call(c, RecentArgs(account_id, limit))

\* the ledger together with the rest of Bank and the clock
BankNext ==
    \/ Next
    \/ Tick
    \/ \E c \in Callers, account_id \in AccountIds, limit \in Limits :
           CallRecentTransactions(c, account_id, limit)
    \/ \E c \in Callers : recentTransactions(c)
    \/ \E c \in Callers, name \in Names : CallCreateCustomer(c, name)
    \/ \E c \in Callers : createCustomer(c)
    \/ \E c \in Callers, customer_id \in CustomerIds : CallCreateAccount(c, customer_id)
    \/ \E c \in Callers : createAccount(c)

BankSpec == Init /\ [][BankNext]_vars

\* the callers run and the storage answers: a caller whose next statement can
\* run without a fault (a blocked UPDATE ends by the lock wait timeout or as a
\* deadlock victim) runs it in the end.  Faults may or may not happen.
FairSpec == Spec /\ \A c \in Callers : WF_vars(Proceed(c) /\ faults' = faults)

-----------------------------------------------------------------------------
\* Properties

\* caller c takes a step
Steps(c) == pc'[c] # pc[c]

\* a step leaves the committed tables as they are
CommittedUnchanged == balance' = balance /\ transactions' = transactions

\* the signed amount of a row: DEPOSIT counts +amount, WITHDRAW and TRANSFER -amount
Signed(rec) == IF rec.type = "DEPOSIT" THEN rec.amount ELSE 0 - rec.amount

\* the sum of the signed amounts of the rows of account id among rows
RECURSIVE SignedSum(_, _)
SignedSum(rows, id) ==
    IF rows = <<>> THEN 0
    ELSE (IF Head(rows).account_id = id THEN Signed(Head(rows)) ELSE 0)
         + SignedSum(Tail(rows), id)

\* C1: in every committed state the balance of every account is >= 0
C1_BalanceNonNegative == \A a \in Accounts : balance[a] >= 0

\* C2: two concurrent withdrawals of one account whose amounts x and y each fit
\* the balance b but not together (x <= b, y <= b, x + y > b) never both pass
\* the sufficiency check against that same balance b
C2_OneWithdrawalPasses ==
    \A c \in Callers : \A d \in Callers \ {c} :
        ~ /\ op[c].name = "withdraw" /\ op[d].name = "withdraw"
          /\ op[c].from = op[d].from
          /\ pc[c] \in {"w_update", "w_finish"} /\ pc[d] \in {"w_update", "w_finish"}
          /\ acct[c].balance = acct[d].balance
          /\ acct[c].balance = balance[op[c].from]
          /\ op[c].amount <= acct[c].balance /\ op[d].amount <= acct[d].balance
          /\ op[c].amount + op[d].amount > acct[c].balance

\* C3: in every committed state the balance of every account is the sum of the
\* signed amounts of its committed TransactionRecords
C3_BalanceIsSumOfRecords ==
    \A a \in Accounts : balance[a] = SignedSum(transactions, a)

\* C4: a step of a transfer that has not committed yet leaves the committed
\* balances and the committed log as they are, and a step that ends the
\* transfer there (a fault after the debit, at the credit, an INSERT or the
\* commit) returns failure
C4_FaultedTransferChangesNothing ==
    [][\A c \in Callers :
          /\ op[c].name = "transfer"
          /\ Steps(c)
          /\ \/ pc[c] \in {"transfer", "t_debit", "t_credit"}
             \/ pc[c] = "t_finish" /\ pc'[c] = "idle"
          => /\ CommittedUnchanged
             /\ pc'[c] = "idle" => Failed(c)']_vars

\* a transfer, the only call so far, has returned from its catch block after
\* the debit and before the credit (the transaction it could not roll back
\* still shows the debit alone)
C4_Witness ==
    \E c \in Callers : \E a \in Accounts :
        /\ calls = 1
        /\ ret[c] = "transfer:417"
        /\ txn[c].delta[a] < 0
        /\ \A b \in Accounts \ {a} : txn[c].delta[b] = 0
        /\ txn[c].recs = <<>>
        /\ transactions = Deposited(1, balance[1]) \o Deposited(2, balance[2])

\* the rows of kind type on account id whose details are details
Rows(type, id, details) ==
    {k \in DOMAIN transactions :
        /\ transactions[k].type = type
        /\ transactions[k].account_id = id
        /\ transactions[k].details = details}

\* C5: whoever reads the committed log sees the two records of a transfer
\* together: as many TRANSFER rows from a to b as DEPOSIT rows on b from a
C5_TransferLegsTogether ==
    \A a \in Accounts : \A b \in Accounts :
        Cardinality(Rows("TRANSFER", a, <<"Transfer to account", b>>))
            = Cardinality(Rows("DEPOSIT", b, <<"Transfer from account", a>>))

\* no other caller is in a call and no storage call has thrown or throws
Alone(c) ==
    /\ \A d \in Callers \ {c} : pc[d] = "idle"
    /\ faults = MaxFaults
    /\ faults' = faults

\* C6: alone and without faults, transfer(A, B, amount) between distinct
\* existing accounts with 0 < amount <= balance(A) goes through every step,
\* commits exactly the debit of A, the credit of B, a TRANSFER row on A and a
\* DEPOSIT row on B, and returns success
C6_TransferSucceeds ==
    [][\A c \in Callers :
          /\ op[c].name = "transfer"
          /\ Steps(c)
          /\ Alone(c)
          /\ op[c].from \in Accounts /\ op[c].to \in Accounts
          /\ op[c].from # op[c].to
          /\ op[c].amount > 0
          /\ pc[c] = "transfer" => op[c].amount <= balance[op[c].from]
          => /\ pc[c] = "transfer" => pc'[c] = "t_debit" /\ CommittedUnchanged
             /\ pc[c] = "t_debit" => pc'[c] = "t_credit" /\ CommittedUnchanged
             /\ pc[c] = "t_credit" => pc'[c] = "t_finish" /\ CommittedUnchanged
             /\ pc[c] = "t_finish" =>
                  /\ pc'[c] = "t_committed"
                  /\ balance' = [balance EXCEPT ![op[c].from] = @ - op[c].amount,
                                                ![op[c].to] = @ + op[c].amount]
                  /\ transactions' = transactions \o
                       <<TransactionRecord(op[c].from, "TRANSFER", op[c].amount,
                                           <<"Transfer to account", op[c].to>>),
                         TransactionRecord(op[c].to, "DEPOSIT", op[c].amount,
                                           <<"Transfer from account", op[c].from>>)>>
             /\ pc[c] = "t_committed" =>
                  /\ pc'[c] = "idle"
                  /\ ret'[c] = "transfer:413"
                  /\ CommittedUnchanged]_vars

\* a transfer between distinct accounts, the only call so far, has returned
\* success without a fault and its two rows end the log
C6_Witness ==
    \E c \in Callers :
        /\ calls = 1
        /\ faults = MaxFaults
        /\ ret[c] = "transfer:413"
        /\ Len(transactions) >= 2
        /\ transactions[Len(transactions) - 1].type = "TRANSFER"
        /\ transactions[Len(transactions)].type = "DEPOSIT"
        /\ transactions[Len(transactions) - 1].account_id
               # transactions[Len(transactions)].account_id

\* C7: a call that returns failure has committed nothing, and a call that has
\* committed something returns success
C7_FailureCommitsNothing ==
    [][\A c \in Callers :
          Steps(c) /\ pc'[c] = "idle" /\ Failed(c)'
          => /\ pc[c] \notin {"d_committed", "w_committed", "t_committed"}
             /\ CommittedUnchanged]_vars

\* C8: with amount <= 0 deposit, withdraw and transfer return failure at once,
\* whatever the account ids: no storage call is made, and the balances, the
\* log and the connection are as before
C8_InvalidAmountRejected ==
    [][\A c \in Callers :
          /\ pc[c] \in {"deposit", "withdraw", "transfer"}
          /\ op[c].amount <= 0
          /\ Steps(c)
          => /\ pc'[c] = "idle"
             /\ ret'[c] = Site(op[c].name, "invalid")
             /\ ~io'[c]
             /\ CommittedUnchanged
             /\ txn' = txn /\ autoCommit' = autoCommit]_vars

\* a call has returned from its amount check without a storage call
C8_Witness ==
    \E c \in Callers :
        /\ ret[c] \in {"deposit:314", "withdraw:341", "transfer:373"}
        /\ ~io[c]

\* C9: withdraw(A, amount) on an existing account with amount > balance(A)
\* returns failure from its first step and changes no balance and no row
C9_WithdrawDeclined ==
    [][\A c \in Callers :
          /\ pc[c] = "withdraw"
          /\ op[c].from \in Accounts
          /\ op[c].amount > balance[op[c].from]
          /\ Steps(c)
          => /\ pc'[c] = "idle"
             /\ Failed(c)'
             /\ CommittedUnchanged]_vars

\* C10: transfer(A, B, amount) between existing accounts with
\* amount > balance(A) returns failure from its first step and changes no
\* balance and no row
C10_TransferDeclined ==
    [][\A c \in Callers :
          /\ pc[c] = "transfer"
          /\ op[c].from \in Accounts /\ op[c].to \in Accounts
          /\ op[c].amount > balance[op[c].from]
          /\ Steps(c)
          => /\ pc'[c] = "idle"
             /\ Failed(c)'
             /\ CommittedUnchanged]_vars

\* C11: deposit(id, amount) with amount > 0 on an id that has no row never
\* commits anything (no balance changes, no row is added) and returns failure
C11_DepositToMissingAccount ==
    [][\A c \in Callers :
          /\ op[c].name = "deposit"
          /\ op[c].from \notin Accounts
          /\ op[c].amount > 0
          /\ Steps(c)
          => /\ CommittedUnchanged
             /\ pc'[c] # "d_committed"
             /\ pc'[c] = "idle" => Failed(c)']_vars

\* a deposit, the only call so far, has returned from its catch block though
\* no storage call has failed by a fault: its INSERT was refused by the
\* foreign key, and no row refers to the account id that has no row
C11_Witness ==
    \E c \in Callers :
        /\ calls = 1
        /\ faults = MaxFaults
        /\ ret[c] = "deposit:336"
        /\ \A k \in DOMAIN transactions : transactions[k].account_id \in Accounts

\* C12: once every call has returned, the balance of every account is its
\* starting balance plus what the calls that returned success credited to it
\* minus what they debited from it
C12_NoUpdateLost ==
    (\A c \in Callers : pc[c] = "idle") => balance = settled

\* C13: the value withdraw and transfer return for an account id without a row
\* differs from the value they return for an insufficient balance
C13_OutcomesDistinguishable ==
    \A c \in Callers : \A d \in Callers :
        /\ ret[c] \in {"withdraw:345", "transfer:377"}
        /\ ret[d] \in {"withdraw:346", "transfer:378"}
        => Succeeded(c) # Succeeded(d)

\* C17: alone and without faults, withdraw(A, amount) on an existing account
\* with 0 < amount <= balance(A), the whole balance included, goes through
\* every step, commits exactly the debit of A and one WITHDRAW row on A, and
\* returns success
C17_WithdrawSucceeds ==
    [][\A c \in Callers :
          /\ op[c].name = "withdraw"
          /\ Steps(c)
          /\ Alone(c)
          /\ op[c].from \in Accounts
          /\ op[c].amount > 0
          /\ pc[c] = "withdraw" => op[c].amount <= balance[op[c].from]
          => /\ pc[c] = "withdraw" => pc'[c] = "w_update" /\ CommittedUnchanged
             /\ pc[c] = "w_update" => pc'[c] = "w_finish" /\ CommittedUnchanged
             /\ pc[c] = "w_finish" =>
                  /\ pc'[c] = "w_committed"
                  /\ balance' = [balance EXCEPT ![op[c].from] = @ - op[c].amount]
                  /\ transactions' = transactions \o
                       <<TransactionRecord(op[c].from, "WITHDRAW", op[c].amount,
                                           <<"Withdrawal via app">>)>>
             /\ pc[c] = "w_committed" =>
                  /\ pc'[c] = "idle"
                  /\ ret'[c] = "withdraw:364"
                  /\ CommittedUnchanged]_vars

\* a withdrawal of the whole balance, the only call so far, has returned
\* success without a fault: the balance is 0 and its row ends the log
C17_Witness ==
    \E c \in Callers :
        /\ calls = 1
        /\ faults = MaxFaults
        /\ ret[c] = "withdraw:364"
        /\ Len(transactions) >= 2
        /\ transactions[Len(transactions)].type = "WITHDRAW"
        /\ transactions[Len(transactions)].amount = 1
        /\ balance[transactions[Len(transactions)].account_id] = 0

\* the sum of the balances bal of the accounts ids
RECURSIVE SumOf(_, _)
SumOf(bal, ids) ==
    IF ids = {} THEN 0
    ELSE LET id == CHOOSE x \in ids : TRUE
         IN  bal[id] + SumOf(bal, ids \ {id})

\* the sum of the committed balances
Total(bal) == SumOf(bal, DOMAIN bal)

\* C19: no step of a transfer call, whether it ends in success or in failure,
\* with or without faults, changes the sum of the committed balances
C19_TransferConservesMoney ==
    [][\A c \in Callers :
          op[c].name = "transfer" /\ Steps(c) => Total(balance') = Total(balance)]_vars

\* C20: alone and without faults, transfer(A, A, amount) on an existing
\* account with 0 < amount <= balance(A) is not rejected: it goes through
\* every step, commits a TRANSFER row and a DEPOSIT row on A, leaves every
\* balance as it was, and returns success
C20_SelfTransferSucceeds ==
    [][\A c \in Callers :
          /\ op[c].name = "transfer"
          /\ Steps(c)
          /\ Alone(c)
          /\ op[c].from \in Accounts
          /\ op[c].from = op[c].to
          /\ op[c].amount > 0
          /\ pc[c] = "transfer" => op[c].amount <= balance[op[c].from]
          => /\ pc[c] = "transfer" => pc'[c] = "t_debit" /\ CommittedUnchanged
             /\ pc[c] = "t_debit" => pc'[c] = "t_credit" /\ CommittedUnchanged
             /\ pc[c] = "t_credit" => pc'[c] = "t_finish" /\ CommittedUnchanged
             /\ pc[c] = "t_finish" =>
                  /\ pc'[c] = "t_committed"
                  /\ balance' = balance
                  /\ transactions' = transactions \o
                       <<TransactionRecord(op[c].from, "TRANSFER", op[c].amount,
                                           <<"Transfer to account", op[c].from>>),
                         TransactionRecord(op[c].from, "DEPOSIT", op[c].amount,
                                           <<"Transfer from account", op[c].from>>)>>
             /\ pc[c] = "t_committed" =>
                  /\ pc'[c] = "idle"
                  /\ ret'[c] = "transfer:413"
                  /\ CommittedUnchanged]_vars

\* a self-transfer, the only call so far, has returned success without a
\* fault: its two rows, both on the one account, end the log
C20_Witness ==
    \E c \in Callers : \E a \in Accounts :
        /\ calls = 1
        /\ faults = MaxFaults
        /\ ret[c] = "transfer:413"
        /\ Len(transactions) = 3
        /\ transactions[2] = TransactionRecord(a, "TRANSFER", 1, <<"Transfer to account", a>>)
        /\ transactions[3] = TransactionRecord(a, "DEPOSIT", 1, <<"Transfer from account", a>>)
        /\ balance[a] = 1

\* C18: every call of deposit, withdraw or transfer returns in the end, also
\* when two callers hold the row locks the other one waits for
C18_EveryCallReturns ==
    \A c \in Callers : (pc[c] # "idle") ~> (pc[c] = "idle")

\* two transfers in opposite directions have both made their debit: each
\* holds the row lock the other needs for its credit
C18_Witness ==
    \E c \in Callers : \E d \in Callers \ {c} :
        /\ pc[c] = "t_credit" /\ pc[d] = "t_credit"
        /\ op[c].from # op[c].to
        /\ op[c].to = op[d].from /\ op[d].to = op[c].from
        /\ op[c].to \in txn[d].locks /\ op[d].to \in txn[c].locks

\* the numbers of the min(limit, n) rows of account id that were appended
\* last to the committed log, the latest first
MostRecent(id, limit) ==
    LET mine == {k \in DOMAIN transactions : transactions[k].account_id = id}
        m == IF limit < Cardinality(mine) THEN limit ELSE Cardinality(mine)
    IN  [i \in 1 .. m |-> CHOOSE k \in mine : Cardinality({j \in mine : j > k}) = i - 1]

\* C14: recentTransactions(account_id, limit), on a connection in auto-commit
\* mode and when its query does not throw, returns the min(limit, n) committed
\* rows of the account that were appended last, the latest first (nothing for
\* an account without rows)
C14_RecentFirst ==
    [][\A c \in Callers :
          /\ pc[c] = "recentTransactions"
          /\ Steps(c)
          /\ faults' = faults
          /\ autoCommit[c] /\ txn[c] = NoTxn
          => out'[c] = MostRecent(op[c].account_id, op[c].limit)]_vars

\* C15: createCustomer with an empty name returns the failure signal -1 and
\* creates no customer, neither committed nor pending in its connection; with
\* a non-empty name and no storage fault it returns an identifier that no
\* customer has yet.
C15_EmptyNameRejected ==
    [][\A c \in Callers :
          pc[c] = "createCustomer" /\ Steps(c) =>
              /\ op[c].customer = "" =>
                    /\ out'[c] = 0 - 1
                    /\ customers' = customers
                    /\ txn'[c].customers = txn[c].customers
              /\ op[c].customer # "" /\ faults' = faults =>
                    /\ out'[c] > 0
                    /\ \A d \in Callers :
                          out'[c] \notin DOMAIN customers \cup DOMAIN txn[d].customers]_vars

\* the accounts rows with the given id, committed or pending in a transaction
AccountRow(acc, t, id) ==
    {acc[i] : i \in DOMAIN acc \cap {id}}
        \cup UNION {{t[d].accounts[i] : i \in DOMAIN t[d].accounts \cap {id}} : d \in Callers}

\* C16: createAccount returns -1 and creates no account when customer_id
\* refers to no customers row its connection can see; when it returns an id,
\* that id is new, its row belongs to customer_id, its balance is zero and no
\* transactions row refers to it; and every committed account belongs to a
\* committed customer.
C16_AccountBelongsToCustomer ==
    [][/\ \A id \in DOMAIN accounts' : accounts'[id] \in DOMAIN customers'
       /\ \A c \in Callers :
             pc[c] = "createAccount" /\ Steps(c) =>
                 /\ op[c].customer_id \notin DOMAIN customers \cup DOMAIN txn[c].customers =>
                       /\ out'[c] = 0 - 1
                       /\ accounts' = accounts
                       /\ balance' = balance
                       /\ txn'[c].accounts = txn[c].accounts
                 /\ out'[c] # 0 - 1 =>
                       /\ AccountRow(accounts, txn, out'[c]) = {}
                       /\ AccountRow(accounts', txn', out'[c]) = {op[c].customer_id}
                       /\ out'[c] \in DOMAIN balance' => balance'[out'[c]] = 0
                       /\ out'[c] \in AccountIds => txn'[c].delta[out'[c]] = 0
                       /\ \A i \in DOMAIN transactions' :
                             transactions'[i].account_id # out'[c]
                       /\ \A d \in Callers : \A i \in DOMAIN txn'[d].recs :
                             txn'[d].recs[i].account_id # out'[c]]_vars

\* C16 witness: createAccount has returned the id of a committed account of
\* balance zero that belongs to a committed customer.
C16_Witness ==
    \E c \in Callers :
        /\ ret[c] = "createAccount:266"
        /\ out[c] \in DOMAIN accounts
        /\ accounts[out[c]] \in DOMAIN customers
        /\ balance[out[c]] = 0

\* C21: whenever deposit, withdraw or transfer returns, by any path, its
\* connection is in auto-commit mode with no open transaction; and a
\* createCustomer or createAccount that returns an id has committed its row,
\* leaving none pending in its connection.
C21_ConnectionRestored ==
    [][\A c \in Callers :
          Steps(c) /\ pc'[c] = "idle" =>
              /\ op[c].name \in {"deposit", "withdraw", "transfer"} =>
                    autoCommit'[c] /\ txn'[c] = NoTxn
              /\ op[c].name = "createCustomer" /\ out'[c] # 0 - 1 =>
                    out'[c] \in DOMAIN customers' /\ txn'[c].customers = <<>>
              /\ op[c].name = "createAccount" /\ out'[c] # 0 - 1 =>
                    out'[c] \in DOMAIN accounts' /\ txn'[c].accounts = <<>>]_vars
====
